---- MODULE Spec2Model ----
(***************************************************************************)
(* A model of cgls_land.py: the Session (collection listing, manifest      *)
(* parsing) and the Collection (date resolution, pooled download).         *)
(*                                                                         *)
(* Representation.  A calendar date is its day ordinal (an integer).  A    *)
(* string over the product-name alphabet is a sequence of letters          *)
(* 1..AlphabetSize.  A manifest line is [date, rt]: the date found by the  *)
(* regular expression and the real-time tag taken from the product name    *)
(* (<<>> when the name holds no "-RT"; pandas stores NaN there).  The      *)
(* text of line n of the manifest (the record's url, from which file_name  *)
(* and int_path are cut) is represented by n: lines of one manifest are    *)
(* distinct, and so are their file names.                                  *)
(***************************************************************************)
EXTENDS Integers, Sequences, FiniteSets, TLC

(* ------------------------------ bounds -------------------------------- *)
MaxLines == 3
MaxDate == 3
MaxRT == 2
MaxList == 2
MaxNameLen == 2
AlphabetSize == 2
MaxChunks == 1
MaxCalls == 2
MaxProducts == 2
MaxLoads == 1

(* ------------------------- program constants -------------------------- *)
max_workers == 4
block_size == 1024

VARIABLES
    products,           \* Session.products
    load_call,          \* the last load_collection call: its argument and outcome
    loads,              \* number of Collection objects constructed so far
    observation_table,  \* Collection.observation_table (a sequence of rows)
    rt_column,          \* 'rt' in observation_table.columns
    date_index,         \* 'date' has been made the index (it is no column any more)
    start_date,         \* Collection.start_date (<<>> is None)
    end_date,           \* Collection.end_date
    remote,             \* the server: url -> response to a streaming GET
    disk,               \* the local file system: d_path -> size in bytes
    pc,                 \* position of the thread that calls download
    call,               \* arguments of the running download call
    download_list,      \* the resolved tasks, in resolution order
    tasks,              \* the futures: state of each submitted _get_file
    downloaded_list,    \* results gathered by as_completed
    written,            \* bytes written to disk by the running call
    calls               \* finished download calls, oldest first

vars == <<products, load_call, loads, observation_table, rt_column, date_index,
          start_date, end_date, remote, disk, pc, call, download_list, tasks,
          downloaded_list, written, calls>>

sessionVars == <<products, load_call>>
collectionVars == <<loads, observation_table, rt_column, date_index, start_date, end_date>>
callVars == <<pc, call, download_list, tasks, downloaded_list, written, calls>>

(* ------------------------------ helpers -------------------------------- *)
Max(a, b) == IF a >= b THEN a ELSE b
Min(a, b) == IF a <= b THEN a ELSE b

SeqsUpTo(S, n) == UNION {[1..k -> S] : k \in 0..n}

Range(s) == {s[i] : i \in DOMAIN s}

(* ------------------------------ Session -------------------------------- *)
None == <<>>

\* Every string a caller can pass as product_name, the empty one included.
ProductNames == SeqsUpTo(1..AlphabetSize, MaxNameLen)

\* What the portal's directory page can list: up to MaxProducts non-empty names.
Listings == {S \in SUBSET (ProductNames \ {<<>>}) : Cardinality(S) <= MaxProducts}

\* Python's `sub in s`, which Series.str.contains(sub, regex=False) applies to
\* every element.
Contains(s, sub) ==
    \E i \in 1..(Len(s) - Len(sub) + 1) : SubSeq(s, i, i + Len(sub) - 1) = sub

\* self.products.str.contains(product_name, regex=False).any()
AnyContains(names, product_name) == \E s \in names : Contains(s, product_name)

\* Session.list_collections: an HTTP error leaves self.products as it was.
ListCollections(Ls) ==
    /\ pc = "idle"
    /\ \E ok \in BOOLEAN, listing \in Ls :
          products' = IF ok THEN [state |-> "listed", names |-> listing]
                            ELSE products
    /\ UNCHANGED <<load_call, collectionVars, remote, disk, callVars>>

(* ------------------------- manifest parsing ---------------------------- *)
\* Every line of a manifest is well formed here: it holds a date and the ten
\* path segments the loop cuts (a line without a date ends load_collection
\* with a TypeError at r[0]).
NaN == <<>>
Dates == 1..MaxDate
RTs == {<<k>> : k \in 1..MaxRT}
Lines == [date : Dates, rt : RTs \cup {NaN}]

\* specific_manifest.text.split('\n'): the lines and the piece after the last
\* newline, which rows[:-1] drops.
Terminator == [date |-> 0, rt |-> NaN]
Manifests(n) == {Append(ls, Terminator) : ls \in SeqsUpTo(Lines, n)}

IsRT(line) == line.rt # NaN

\* The row appended for line number n (n_index = n - 1).
Row(line, n) == [url |-> n, date |-> line.date, rt |-> line.rt]

\* Order of the 'rt' column under sort_values: NaN is placed last.
RtRank(rt) == IF rt = NaN THEN MaxRT + 1 ELSE rt[1]

DateRtLess(a, b) ==
    \/ a.date < b.date
    \/ a.date = b.date /\ RtRank(a.rt) < RtRank(b.rt)

Reorder(t, p) == [i \in 1..Len(t) |-> t[p[i]]]

\* sort_values(by=['date', 'rt']): several keys are sorted with a lexsort,
\* which is stable.
SortByDateRt(t) ==
    LET p == CHOOSE q \in Permutations(1..Len(t)) :
                 \A i, j \in 1..Len(t) : i < j =>
                     \/ DateRtLess(t[q[i]], t[q[j]])
                     \/ ~DateRtLess(t[q[j]], t[q[i]]) /\ q[i] < q[j]
    IN  {Reorder(t, p)}

\* sort_values(by=['date']): one key is sorted with kind='quicksort', which is
\* not stable: rows of one date come out in any order.
SortByDate(t) ==
    {Reorder(t, p) : p \in {q \in Permutations(1..Len(t)) :
        \A i, j \in 1..Len(t) : i < j => t[q[i]].date <= t[q[j]].date}}

\* One pass of the loop body: concat, then the sort chosen by this line's name.
ParseLine(t, line, n) ==
    IF IsRT(line) THEN SortByDateRt(Append(t, Row(line, n)))
                  ELSE SortByDate(Append(t, Row(line, n)))

\* The tables the loop over rows[:-1] can end with.
RECURSIVE ParseRows(_, _)
ParseRows(rows, n) ==
    IF n = 0 THEN {<<>>}
    ELSE UNION {ParseLine(t, rows[n], n) : t \in ParseRows(rows, n - 1)}

ParseManifest(rows) == ParseRows(rows, Len(rows) - 1)

\* What self.products can be once line 58 has run: list_collections is called
\* when it is None, and an HTTP error there leaves it None.
AfterListing(Ls) ==
    IF products.state = "none"
    THEN {products} \cup {[state |-> "listed", names |-> listing] : listing \in Ls}
    ELSE {products}

\* Session.load_collection(product_name).
LoadCollection(Ns, Ls, Ms) ==
    /\ pc = "idle"
    /\ loads < MaxLoads
    /\ \E product_name \in Ns, prods \in AfterListing(Ls) :
        LET done(res) == [name |-> product_name, result |-> res, products |-> prods]
        IN  /\ products' = prods
            /\ IF prods.state # "listed"
               THEN \* self.products is missing, or still None after a failed listing
                    /\ load_call' = done("AttributeError")
                    /\ UNCHANGED collectionVars
               ELSE IF ~AnyContains(prods.names, product_name)
               THEN /\ load_call' = done("Product not in the list")
                    /\ UNCHANGED collectionVars
               ELSE \/ \* the collection page answers with an HTTP error: returns None
                       /\ load_call' = done("HTTPError")
                       /\ UNCHANGED collectionVars
                    \/ \E rows \in Ms :
                       /\ \E t \in ParseManifest(rows) : observation_table' = t
                       /\ rt_column' = \E i \in 1..(Len(rows) - 1) : IsRT(rows[i])
                       /\ date_index' = FALSE
                       /\ start_date' = None
                       /\ end_date' = None
                       /\ loads' = loads + 1
                       /\ load_call' = done("Collection")
    /\ UNCHANGED <<remote, disk, callVars>>

(* --------------------- Collection: date resolution --------------------- *)
\* The rows of t at the positions in I, in their order.
SubseqAt(t, I) ==
    [k \in 1..Cardinality(I) |->
        t[CHOOSE i \in I : Cardinality({j \in I : j <= i}) = k]]

\* DataFrame.drop_duplicates(subset=['date'], keep='last')
DropDuplicates(t) ==
    SubseqAt(t, {i \in 1..Len(t) : \A j \in (i + 1)..Len(t) : t[j].date # t[i].date})

\* Index.is_unique of the date index.
IndexIsUnique(t) == \A i, j \in 1..Len(t) : i # j => t[i].date # t[j].date

\* index.get_indexer([target], method='bfill')[0]: the first label >= target.
GetIndexerBfill(t, target) ==
    IF \E i \in 1..Len(t) : t[i].date >= target
    THEN Cardinality({i \in 1..Len(t) : t[i].date < target})
    ELSE -1

\* index.get_indexer([target], method='ffill')[0] on the sorted, unique date
\* index: the 0-based position of the last label <= target, -1 when there is none.
GetIndexerFfill(t, target) ==
    Cardinality({i \in 1..Len(t) : t[i].date <= target}) - 1

\* A Python position: a negative one counts from the end.
Position(n, a) == IF a < 0 THEN Max(n + a, 0) ELSE Min(a, n)

\* DataFrame.iloc[a:b] (0-based, b excluded).
ILocSlice(t, a, b) ==
    LET lo == Position(Len(t), a)
        hi == Position(Len(t), b)
    IN  IF lo >= hi THEN <<>> ELSE SubSeq(t, lo + 1, hi)

\* DataFrame.iloc[i] (0-based).
ILoc(t, i) == t[Position(Len(t), i) + 1]

\* The date argument of download.
DateNone == [kind |-> "None"]
DateStr(d) == [kind |-> "str", d |-> d]
DateList(ds) == [kind |-> "list", ds |-> ds]
DateSlice(a, b) == [kind |-> "slice", start |-> a, stop |-> b]

QueryDates == 0..(MaxDate + 1)
Selectors ==
    {DateNone}
    \cup {DateStr(d) : d \in QueryDates}
    \cup {DateList(ds) : ds \in SeqsUpTo(QueryDates, MaxList)}
    \cup {DateSlice(a, b) : a, b \in QueryDates}

Resolved(list) == [err |-> "ok", list |-> list]
Raised(err) == [err |-> err, list |-> <<>>]

\* One date of a str or list selector (lines 200-206, 210-216).
ResolveOne(t, lo, hi, d) ==
    IF ~(lo <= d /\ d <= hi) THEN Raised("Date are out of the valid range")
    ELSE IF ~IndexIsUnique(t) THEN Raised("InvalidIndexError")
    ELSE Resolved(<<ILoc(t, GetIndexerFfill(t, d))>>)

\* The branch on the type of date (lines 195-228); t is the table indexed by
\* date, lo and hi are self.start_date and self.end_date.
Resolve(t, lo, hi, date) ==
    CASE date.kind = "None" ->
            \* DataFrame has no method item(): tail(1).item() raises
            Raised("AttributeError")
      [] date.kind = "str" -> ResolveOne(t, lo, hi, date.d)
      [] date.kind = "list" ->
            LET one(i) == ResolveOne(t, lo, hi, date.ds[i])
                bad == {i \in 1..Len(date.ds) : one(i).err # "ok"}
            IN  IF bad # {}
                THEN one(CHOOSE i \in bad : \A j \in bad : i <= j)
                ELSE Resolved([i \in 1..Len(date.ds) |-> one(i).list[1]])
      [] date.kind = "slice" ->
            IF ~(\/ lo <= date.start /\ date.start <= hi
                 \/ lo <= date.stop /\ date.stop <= hi)
            THEN Raised("AssertionError")
            ELSE IF ~(date.start <= date.stop) THEN Raised("AssertionError")
            ELSE IF date.start = date.stop THEN Raised("AssertionError")
            ELSE IF ~IndexIsUnique(t) THEN Raised("InvalidIndexError")
            ELSE Resolved(ILocSlice(t, GetIndexerFfill(t, date.start),
                                       GetIndexerFfill(t, date.stop) + 1))

\* Lines 181-228 of download: what is left in the object and what is resolved.
\* kw_rt is kwargs['rt'], NaN when the keyword is not given.
Prepare(date, kw_rt) ==
    LET same(err) == [table |-> observation_table, index |-> date_index,
                      start |-> start_date, end |-> end_date,
                      err |-> err, list |-> <<>>]
        t1 == IF rt_column THEN DropDuplicates(observation_table)
                           ELSE observation_table
        lo == IF start_date = None \/ end_date = None THEN <<t1[1].date>>
                                                      ELSE start_date
        hi == IF start_date = None \/ end_date = None THEN <<t1[Len(t1)].date>>
                                                      ELSE end_date
    IN  IF rt_column /\ kw_rt # NaN
        THEN same("AttributeError")    \* the column is 'rt': there is no .RT
        ELSE IF rt_column /\ date_index
        THEN same("KeyError")          \* drop_duplicates: 'date' is no column
        ELSE IF (start_date = None \/ end_date = None) /\ Len(t1) = 0
        THEN same("ValueError")        \* head(1).item() of an empty column
        ELSE IF date_index
        THEN [same("KeyError") EXCEPT !.table = t1]   \* set_index: 'date' is no column
        ELSE LET r == Resolve(t1, lo[1], hi[1], date)
             IN  [table |-> t1, index |-> TRUE, start |-> lo, end |-> hi,
                  err |-> r.err, list |-> r.list]

(* ---------------------- Collection: the download ----------------------- *)
\* path argument of download: a directory of the caller's, or None.
Paths == {<<0>>, None}

\* self.path (lines 231-236): the caller's directory, or ./data/<int_path of
\* the first task>, the int_path of line n being represented by n.
Directory(path, list) == IF path # None THEN path[1] ELSE list[1].url

\* os.path.join(self.path, file_name)
DPath(dir, row) == [dir |-> dir, file |-> row.url]

\* What the server answers to the streaming GET of a file: an HTTP error
\* status, a failure below HTTP, or a declared content-length and a body.
Sizes == {k * block_size : k \in 0..MaxChunks}
Responses ==
    {[status |-> st, total |-> 0, body |-> 0] : st \in {"HTTPError", "ConnectionError"}}
    \cup [status : {"ok"}, total : Sizes, body : Sizes]

\* What a _get_file call hands to its future.
ReturnedPath(d) == [kind |-> "path", path |-> <<d>>]
ReturnedNone == [kind |-> "None", path |-> <<>>]
ReturnedException(d) == [kind |-> "Exception object", path |-> <<d>>]
RaisedException == [kind |-> "raised", path |-> <<>>]
Pending == [kind |-> "pending", path |-> <<>>]

NoCall == [date |-> [kind |-> "no call"], path |-> None, rt |-> NaN, dir |-> 0]

Queued(row, dir) ==
    [st |-> "queued", url |-> row.url, d_path |-> DPath(dir, row),
     total |-> 0, body |-> 0, downloaded_bytes |-> 0, result |-> Pending]

Ended(c, outcome, value, bytes) ==
    [obj |-> loads, date |-> c.date, path |-> c.path,
     outcome |-> outcome, value |-> value, written |-> bytes]

\* download, lines 179-248: the selection of the rows, the directory and the
\* submission of one _get_file per row to the pool.  With again = FALSE only
\* the first call on the Collection is explored.
DownloadBegin(Ss, Ps, Ks, again) ==
    /\ pc = "idle"
    /\ loads > 0
    /\ Len(calls) < MaxCalls
    /\ again \/ calls = <<>>
    /\ \E date \in Ss, path \in Ps, kw_rt \in Ks :
        LET p == Prepare(date, kw_rt)
            fails == IF p.err # "ok" THEN p.err
                     ELSE IF path = None /\ p.list = <<>> THEN "IndexError"
                     ELSE "ok"
            dir == IF fails = "ok" /\ p.list # <<>> THEN Directory(path, p.list) ELSE 0
        IN  /\ observation_table' = p.table
            /\ date_index' = p.index
            /\ start_date' = p.start
            /\ end_date' = p.end
            /\ call' = [date |-> date, path |-> path, rt |-> kw_rt, dir |-> dir]
            /\ written' = 0
            /\ downloaded_list' = <<>>
            /\ IF fails # "ok"
               THEN /\ calls' = Append(calls, Ended([date |-> date, path |-> path],
                                                      fails, <<>>, 0))
                    /\ UNCHANGED <<pc, download_list, tasks>>
               ELSE /\ pc' = "pool"
                    /\ download_list' = p.list
                    /\ tasks' = [pid \in 1..Len(p.list) |-> Queued(p.list[pid], dir)]
                    /\ UNCHANGED calls
    /\ UNCHANGED <<sessionVars, loads, rt_column, remote, disk>>

Running == {pid \in DOMAIN tasks : tasks[pid].st \in {"requested", "open"}}

\* os.path.isfile(d_path) and os.path.getsize(d_path) == total_size
AlreadyAvailable(d, total_size) == d \in DOMAIN disk /\ disk[d] = total_size

\* _get_file, lines 264-280, run by a free worker on the oldest queued task.
Request(pid, Rs) ==
    /\ pc = "pool"
    /\ pid \in DOMAIN tasks
    /\ tasks[pid].st = "queued"
    /\ \A q \in 1..(pid - 1) : tasks[q].st # "queued"
    /\ Cardinality(Running) < max_workers
    /\ LET t == tasks[pid] IN
       \E r \in (IF t.url \in DOMAIN remote THEN {remote[t.url]} ELSE Rs) :
        /\ remote' = (t.url :> r) @@ remote
        /\ tasks' = [tasks EXCEPT ![pid] =
              IF r.status = "HTTPError"
              THEN [t EXCEPT !.st = "done", !.result = ReturnedNone]
              ELSE IF r.status = "ConnectionError"
              THEN [t EXCEPT !.st = "done", !.result = RaisedException]
              ELSE IF AlreadyAvailable(t.d_path, r.total)
              THEN [t EXCEPT !.st = "done", !.total = r.total, !.body = r.body,
                             !.result = ReturnedPath(t.d_path)]
              ELSE [t EXCEPT !.st = "requested", !.total = r.total, !.body = r.body]]
    /\ UNCHANGED <<sessionVars, collectionVars, disk, pc, call, download_list,
                   downloaded_list, written, calls>>

\* open(d_path, 'wb'), line 283: the file is created or truncated.
Open(pid) ==
    /\ pc = "pool"
    /\ pid \in DOMAIN tasks
    /\ tasks[pid].st = "requested"
    /\ disk' = (tasks[pid].d_path :> 0) @@ disk
    /\ tasks' = [tasks EXCEPT ![pid].st = "open"]
    /\ UNCHANGED <<sessionVars, collectionVars, remote, pc, call, download_list,
                   downloaded_list, written, calls>>

\* One pass of the loop over r.iter_content(block_size), lines 284-287.  The
\* size of the file is the furthest byte any writer has reached since it was
\* last truncated.
WriteChunk(pid) ==
    /\ pc = "pool"
    /\ pid \in DOMAIN tasks
    /\ tasks[pid].st = "open"
    /\ tasks[pid].downloaded_bytes < tasks[pid].body
    /\ LET t == tasks[pid]
           chunk == Min(block_size, t.body - t.downloaded_bytes)
       IN  /\ disk' = [disk EXCEPT ![t.d_path] = Max(@, t.downloaded_bytes + chunk)]
           /\ tasks' = [tasks EXCEPT ![pid].downloaded_bytes = @ + chunk]
           /\ written' = written + chunk
    /\ UNCHANGED <<sessionVars, collectionVars, remote, pc, call, download_list,
                   downloaded_list, calls>>

\* The end of the body: the file is closed and the size compared, lines 289-292.
Close(pid) ==
    /\ pc = "pool"
    /\ pid \in DOMAIN tasks
    /\ tasks[pid].st = "open"
    /\ tasks[pid].downloaded_bytes = tasks[pid].body
    /\ LET t == tasks[pid] IN
       tasks' = [tasks EXCEPT ![pid] =
          [t EXCEPT !.st = "done",
                    !.result = IF t.total # t.downloaded_bytes
                               THEN ReturnedException(t.d_path)
                               ELSE ReturnedPath(t.d_path)]]
    /\ UNCHANGED <<sessionVars, collectionVars, remote, disk, pc, call,
                   download_list, downloaded_list, written, calls>>

\* What the loop over as_completed does with one finished future, lines 250-255.
Gather(list, result) ==
    IF result.kind = "raised" THEN list ELSE Append(list, result)

Collect(pid) ==
    /\ pc = "pool"
    /\ pid \in DOMAIN tasks
    /\ tasks[pid].st = "done"
    /\ tasks' = [tasks EXCEPT ![pid].st = "collected"]
    /\ downloaded_list' = Gather(downloaded_list, tasks[pid].result)
    /\ UNCHANGED <<sessionVars, collectionVars, remote, disk, pc, call,
                   download_list, written, calls>>

\* Lines 257-260, once every future has been gathered.
Finish ==
    /\ pc = "pool"
    /\ \A pid \in DOMAIN tasks : tasks[pid].st = "collected"
    /\ pc' = "idle"
    /\ calls' = Append(calls, IF downloaded_list = <<>>
                              THEN Ended(call, "0 files downloaded", <<>>, written)
                              ELSE Ended(call, "returned", downloaded_list, written))
    /\ UNCHANGED <<sessionVars, collectionVars, remote, disk, call, download_list,
                   tasks, downloaded_list, written>>

(* --------------------------- specifications ---------------------------- *)
NoProducts == [state |-> "none", names |-> {}]
UnsetProducts == [state |-> "unset", names |-> {}]
NoLoad == [name |-> <<>>, result |-> "none", products |-> NoProducts]

\* The state after Session(usr, psw): self.products is None, or is not set at
\* all when the first request got an HTTP error (line 31 returns early).
Init ==
    /\ products \in {NoProducts, UnsetProducts}
    /\ load_call = NoLoad
    /\ loads = 0
    /\ observation_table = <<>>
    /\ rt_column = FALSE
    /\ date_index = FALSE
    /\ start_date = None
    /\ end_date = None
    /\ remote = <<>>
    /\ disk = <<>>
    /\ pc = "idle"
    /\ call = NoCall
    /\ download_list = <<>>
    /\ tasks = <<>>
    /\ downloaded_list = <<>>
    /\ written = 0
    /\ calls = <<>>

\* The steps of the pool's worker threads and of the as_completed loop.
Workers(Rs) ==
    \E pid \in DOMAIN tasks :
        Request(pid, Rs) \/ Open(pid) \/ WriteChunk(pid) \/ Close(pid) \/ Collect(pid)

\* One product on the portal, as the spec's scenarios have it.
OneName == {<<1>>}
OneListing == {{<<1>>}}

\* The server answers every file request with its whole body.
Complete == {r \in Responses : r.status = "ok" /\ r.total = r.body /\ r.body > 0}

\* kwargs of download: no rt keyword, or one of the tags.
NoKeyword == {NaN}
Keywords == {NaN} \cup RTs

\* The Session alone: listing and loading by name.
NextSession ==
    \/ ListCollections(Listings)
    \/ LoadCollection(ProductNames, Listings, Manifests(1))

SpecSession == Init /\ [][NextSession]_vars

\* load_collection on every manifest of up to MaxLines lines.
NextParse == LoadCollection(OneName, OneListing, Manifests(MaxLines))

SpecParse == Init /\ [][NextParse]_vars

\* The whole program, the server sending every file whole.
NextResolve ==
    \/ LoadCollection(OneName, OneListing, Manifests(MaxLines))
    \/ DownloadBegin(Selectors, Paths, Keywords, FALSE)
    \/ Workers(Complete)
    \/ Finish

SpecResolve == Init /\ [][NextResolve]_vars

\* The whole program on manifests of up to two lines, the server answering
\* anything.
ListSelectors == {DateStr(d) : d \in Dates} \cup {DateList(ds) : ds \in SeqsUpTo(Dates, MaxList)}

Next ==
    \/ LoadCollection(OneName, OneListing, Manifests(MaxLines - 1))
    \/ DownloadBegin(ListSelectors, Paths, NoKeyword, TRUE)
    \/ Workers(Responses)
    \/ Finish

Spec == Init /\ [][Next]_vars

(* ------------------------------ claims --------------------------------- *)
Last(s) == s[Len(s)]

\* A download call has been made, and the latest one got past line 239.
Begun == call # NoCall
ThroughPool(c) == c.outcome \in {"returned", "0 files downloaded"}
Resolving == Begun /\ (pc = "pool" \/ ThroughPool(Last(calls)))

\* The latest download call has ended after running its tasks.
FinishedPool == pc = "idle" /\ calls # <<>> /\ ThroughPool(Last(calls))

TasksOf(kinds) == {pid \in DOMAIN tasks : tasks[pid].result.kind \in kinds}

\* C1: when k of the n tasks get an HTTP error status and the other n - k
\* succeed (n - k > 0), download returns exactly n - k elements, each the
\* path of a task that succeeded.
C1_FailedTasksContributeNothing ==
    (/\ FinishedPool
     /\ TasksOf({"None", "path"}) = DOMAIN tasks
     /\ TasksOf({"path"}) # {})
    => /\ Last(calls).outcome = "returned"
       /\ Len(Last(calls).value) = Cardinality(TasksOf({"path"}))
       /\ \A k \in DOMAIN Last(calls).value : Last(calls).value[k].kind = "path"

\* C2: when every task fails, by HTTP error status or by size mismatch,
\* download does not return a list: it fails with '0 files downloaded'.
C2_AllFailedRaises ==
    (/\ FinishedPool
     /\ tasks # <<>>
     /\ TasksOf({"None", "Exception object"}) = DOMAIN tasks)
    => Last(calls).outcome = "0 files downloaded"

\* C3: a task whose streamed byte count differs from the declared
\* content-length is a size-mismatch error for its file, and its outcome is
\* not in the list download returns.
C3_SizeMismatchExcluded ==
    FinishedPool =>
        \A pid \in DOMAIN tasks :
            (tasks[pid].st = "collected"
                /\ tasks[pid].downloaded_bytes # tasks[pid].total
                /\ tasks[pid].result.kind \notin {"None", "raised"})
            => /\ tasks[pid].result = ReturnedException(tasks[pid].d_path)
               /\ \A k \in DOMAIN Last(calls).value :
                      Last(calls).value[k] # tasks[pid].result

\* C4: after a download call that returned the path of every task, the next
\* call with the same date and path returns the same set of paths and writes
\* no byte.
C4_SecondCallIsNoOp ==
    \A i \in 1..(Len(calls) - 1) :
        (/\ calls[i].outcome = "returned"
         /\ \A k \in DOMAIN calls[i].value : calls[i].value[k].kind = "path"
         /\ calls[i + 1].date = calls[i].date
         /\ calls[i + 1].path = calls[i].path)
        => /\ calls[i + 1].outcome = "returned"
           /\ calls[i + 1].written = 0
           /\ Range(calls[i + 1].value) = Range(calls[i].value)

\* C5: on a non-empty catalog, download with date=None resolves to exactly
\* one task, the row with the latest date.
C5_NoDateIsLatest ==
    (Begun /\ call.date = DateNone /\ observation_table # <<>>)
    => /\ Resolving
       /\ Len(download_list) = 1
       /\ download_list[1] \in Range(observation_table)
       /\ \A i \in DOMAIN observation_table :
              observation_table[i].date <= download_list[1].date

\* The dates a str or list selector asks for.
Requested(date) == IF date.kind = "str" THEN <<date.d>> ELSE date.ds

\* row is the row of t with the greatest date that does not exceed d.
IsFloor(t, row, d) ==
    /\ row \in Range(t)
    /\ row.date <= d
    /\ \A i \in DOMAIN t : t[i].date <= d => t[i].date <= row.date

\* The latest download call is the first one on its Collection.
FirstCall == Begun /\ Len(calls) = (IF pc = "pool" THEN 0 ELSE 1)

DistinctDates(t) == \A i, j \in DOMAIN t : i # j => t[i].date # t[j].date

\* C6: floor lookup.  Every date d that a str or list selector resolves lies
\* within [minDate, maxDate], and its task is the row with the greatest date
\* that does not exceed d: the row of date d when there is one, never a row
\* dated after d.  The first call on a Collection whose dates are distinct
\* does resolve every such list of dates within [minDate, maxDate].
C6_FloorLookup ==
    LET t == observation_table
        ds == Requested(call.date)
        within(d) == t[1].date <= d /\ d <= t[Len(t)].date
    IN  (Begun /\ call.date.kind \in {"str", "list"}) =>
        /\ Resolving =>
              /\ Len(download_list) = Len(ds)
              /\ \A k \in DOMAIN ds :
                    /\ within(ds[k])
                    /\ IsFloor(t, download_list[k], ds[k])
                    /\ (\E i \in DOMAIN t : t[i].date = ds[k])
                           => download_list[k].date = ds[k]
        /\ (/\ FirstCall
            /\ t # <<>>
            /\ DistinctDates(t)
            /\ call.rt = NaN \/ ~rt_column
            /\ call.path # None \/ ds # <<>>
            /\ \A k \in DOMAIN ds : within(ds[k]))
           => Resolving

\* C6's case: a requested date strictly between two catalog dates has been
\* resolved to the earlier one, second of a list whose first date is exact.
C6_Witness ==
    /\ pc = "pool"
    /\ call.date.kind = "list"
    /\ Len(call.date.ds) = 2
    /\ download_list[1].date = call.date.ds[1]
    /\ download_list[2].date < call.date.ds[2]
    /\ \E i \in DOMAIN observation_table :
           observation_table[i].date > call.date.ds[2]
    /\ rt_column

\* 1-based position of the row with the greatest date <= d, 0 without one.
FloorPos(t, d) ==
    IF \E i \in DOMAIN t : t[i].date <= d
    THEN CHOOSE i \in DOMAIN t :
             t[i].date <= d /\ \A j \in DOMAIN t : t[j].date <= d => j <= i
    ELSE 0

\* C7: an accepted interval [start, stop] resolves to the rows from the floor
\* position of start through the floor position of stop, in ascending order
\* (from the first row when start is before minDate).
C7_IntervalIsFloorToFloor ==
    (Resolving /\ call.date.kind = "slice")
    => download_list =
          SubSeq(observation_table,
                 Max(FloorPos(observation_table, call.date.start), 1),
                 FloorPos(observation_table, call.date.stop))

\* C8: load_collection fails with 'Product not in the list' whenever the name
\* is not an element of the listed names.
C8_UnknownProductRejected ==
    (/\ load_call.result # "none"
     /\ load_call.products.state = "listed"
     /\ load_call.name \notin load_call.products.names)
    => load_call.result = "Product not in the list"

\* C9: no two tasks of one download call have the same destination file open
\* for writing at the same time.
C9_NoSharedOpenFile ==
    \A p, q \in DOMAIN tasks :
        (p # q /\ tasks[p].st = "open" /\ tasks[q].st = "open")
        => tasks[p].d_path # tasks[q].d_path

\* C10: the table load_collection builds is sorted non-decreasing by date
\* and, among rows of one date that carry a real-time tag, non-decreasing by
\* tag, whatever the last line is.
C10_TableSorted ==
    (load_call.result = "Collection" /\ ~date_index)
    => \A i, j \in DOMAIN observation_table : i < j =>
          /\ observation_table[i].date <= observation_table[j].date
          /\ (/\ observation_table[i].date = observation_table[j].date
              /\ observation_table[i].rt # NaN
              /\ observation_table[j].rt # NaN)
             => observation_table[i].rt[1] <= observation_table[j].rt[1]

====
